---- MODULE Spec2Model ----
(***************************************************************************)
(* Selection state machine of the "Global AI Adoption Landscape"           *)
(* dashboard (src/Home.py).  A Streamlit page is a script that is executed *)
(* from top to bottom once per user interaction and once more for every    *)
(* st.rerun(); one execution of the script is one action of this model.    *)
(* st.session_state and the state of the widgets survive between           *)
(* executions, local variables of the script do not.                       *)
(*                                                                         *)
(* Widgets, as Streamlit defines them:                                     *)
(*  - st.button returns True only in the execution that its press starts;  *)
(*  - st.plotly_chart(on_select="rerun") returns the selection of the map  *)
(*    in every execution until the user changes or clears it;              *)
(*  - st.radio("Mode:", index=...) returns the option picked by the user   *)
(*    in the execution that the pick starts, and the option at its index   *)
(*    (the current compare_mode) otherwise;                                *)
(*  - st.rerun() stops the execution and starts the script again on the    *)
(*    same widget state, before any other event.                           *)
(***************************************************************************)
EXTENDS Integers, FiniteSets, Sequences, TLC

\* ------------------------------------------------------------------------
\* Bounds of the model
\* ------------------------------------------------------------------------
\* number of countries that occur as employee residence only, as company
\* location only, and as both, in the dataset
NEmployeesOnly == 1
NCompaniesOnly == 1
NBoth == 2

\* longest run of successive map clicks that the history variable trail records
MaxTrail == 3

\* the largest aggregated value and the largest number of job titles of a
\* metric of the job-roles page
MaxRaw == 100
MaxLen == 3

\* epsilon = 0.02 = EpsilonNum / EpsilonDen
EpsilonNum == 2
EpsilonDen == 100

\* country names: the employees-only ones, then those of both kinds, then
\* the companies-only ones
Countries == 1..(NEmployeesOnly + NBoth + NCompaniesOnly)
\* Python's None (no country)
None == 0

\* the three options of the "Mode:" radio, Home.py:338
Modes == {"Standard View", "Compare Employees", "Compare Companies"}
\* the three options of the "Select View Mode:" radio, Home.py:224
ViewModes == {"Comparator", "Employee Residence", "Company Location"}
\* value of the "Mode:" radio when the user did not touch it in this run
NoPick == "no pick"
\* the two pages with a map: Home.py and
\* pages/Geographical_overview_of_AI_Impact.py
Pages == {"Home", "Geographical overview"}

\* The rows of database_ai_job_final.csv, a row being
\* <<employee_residence, company_location>>: every country of both kinds
\* has a row of its own, every employees-only country a row with a company
\* abroad, every companies-only country a row with an employee abroad.
\* A session on a dataset with fewer countries is a session on this one in
\* which the other countries are never clicked.
Records ==
    LET hub == NEmployeesOnly + 1
    IN  {<<c, c>> : c \in (NEmployeesOnly + 1)..(NEmployeesOnly + NBoth)}
        \cup {<<c, hub>> : c \in 1..NEmployeesOnly}
        \cup {<<hub, c>> : c \in (NEmployeesOnly + NBoth + 1)
                                    ..(NEmployeesOnly + NBoth + NCompaniesOnly)}

\* what load_data can return: the rows of the file, or the empty frame
\* when the file is missing (Home.py:48-49)
Datasets == {Records, {}}

\* the file database_ai_job_final.csv when the session starts: it can be
\* read, it does not exist, or it exists and cannot be read (no permission,
\* not a CSV file)
FileStates == {"present", "absent", "unreadable"}

\* a name that occurs in neither column of the dataset
Stranger == -1

\* load_data, Home.py:39-52: pd.read_csv raises FileNotFoundError for a
\* missing file, which is caught, and another exception (PermissionError,
\* ParserError, EmptyDataError, ...) for a file it cannot read, which is
\* not: the script then stops at line 52 and no frame exists
load_data(f) ==
    IF f = "present" THEN [df |-> Records, error |-> "none"]
    ELSE IF f = "absent" THEN [df |-> {}, error |-> "none"]
    ELSE [df |-> {}, error |-> "read_csv"]

VARIABLES
    file,           \* the state of the CSV file (environment)
    page,           \* the page of the application that is open
    df,             \* the loaded dataset (load_data is cached: loaded once)
    session_state,  \* st.session_state: the four keys of Home.py:19-26
    view_mode,      \* state of the "Select View Mode:" radio
    selection,      \* state of the map widget: the selected country or None
    rerun,          \* TRUE when the last execution ended in st.rerun()
    last,           \* history: what the last execution of the script did
    trail,          \* history: the countries clicked one after the other on
                    \* the Comparator map since the session state was fresh
    raw_value,      \* job-roles page: the aggregated values of one metric,
                    \* one per job title (column raw_value of temp_df)
    normalized_value \* job-roles page: column normalized_value of temp_df,
                    \* << >> while the metric has not been normalized

vars == <<file, page, df, session_state, view_mode, selection, rerun, last, trail,
          raw_value, normalized_value>>

\* ------------------------------------------------------------------------
\* Session state, Home.py:19-33
\* ------------------------------------------------------------------------
InitialSessionState ==
    [primary_country |-> None, secondary_country |-> None,
     compare_mode |-> "Standard View", show_global_top10 |-> FALSE]

\* reset_app that forgets the global list flag
reset_app_KeepsGlobalList(ss) ==
    [ss EXCEPT !.primary_country = None,
               !.secondary_country = None,
               !.compare_mode = "Standard View"]

reset_app(ss) ==
    [ss EXCEPT !.primary_country = None,
               !.secondary_country = None,
               !.compare_mode = "Standard View",
               !.show_global_top10 = FALSE]

\* ------------------------------------------------------------------------
\* Country sets and categories, Home.py:258-275
\* ------------------------------------------------------------------------
emp_countries(d) == {r[1] : r \in d}
comp_countries(d) == {r[2] : r \in d}
all_countries(d) == emp_countries(d) \cup comp_countries(d)

get_category(d, c) ==
    LET is_emp == c \in emp_countries(d)
        is_comp == c \in comp_countries(d)
    IN  IF is_emp /\ is_comp THEN "Both (Employees & Companies)"
        ELSE IF is_emp THEN "Employees Only"
        ELSE "Companies Only"

\* Python's  "Employees" in category  on the three category strings
ContainsEmployees(category) ==
    category \in {"Employees Only", "Both (Employees & Companies)"}

\* ------------------------------------------------------------------------
\* Faulty variants of the click handling, one fault each:
\*   "keeps_mode"        the toggle on the primary leaves compare_mode
\*   "keeps_secondary"   the toggle on the primary leaves secondary_country
\*   "toggle_standard"   the toggle on the primary works in Standard only
\*   "fill_first"        the secondary is filled before the toggle on the
\*                       secondary is looked at
\*   "no_fill"           the branch that fills the secondary is missing
\*   "no_retarget"       the branch that replaces the primary is missing
\* ------------------------------------------------------------------------
ClickHandlingVariant(ss, clicked_country, fault) ==
    IF clicked_country = None
    THEN [ss |-> ss, rerun |-> FALSE, rule |-> "none"]
    ELSE IF /\ fault = "fill_any"
            /\ ss.primary_country # None
            /\ ss.compare_mode # "Standard View"
            /\ clicked_country # ss.secondary_country
    THEN [ss |-> [ss EXCEPT !.secondary_country = clicked_country],
          rerun |-> FALSE, rule |-> "set_secondary"]
    ELSE IF /\ clicked_country = ss.primary_country
            /\ fault = "toggle_standard" => ss.compare_mode = "Standard View"
    THEN [ss |-> [ss EXCEPT
                    !.primary_country = None,
                    !.secondary_country =
                        IF fault = "keeps_secondary" THEN @ ELSE None,
                    !.compare_mode =
                        IF fault = "keeps_mode" THEN @ ELSE "Standard View"],
          rerun |-> TRUE, rule |-> "toggle_primary"]
    ELSE IF /\ fault = "fill_first"
            /\ ss.primary_country # None
            /\ ss.compare_mode # "Standard View"
            /\ clicked_country # ss.primary_country
    THEN [ss |-> [ss EXCEPT !.secondary_country = clicked_country],
          rerun |-> FALSE, rule |-> "set_secondary"]
    ELSE IF clicked_country = ss.secondary_country
    THEN [ss |-> [ss EXCEPT !.secondary_country = None],
          rerun |-> TRUE, rule |-> "toggle_secondary"]
    ELSE IF ss.primary_country = None
    THEN [ss |-> [ss EXCEPT !.primary_country = clicked_country],
          rerun |-> FALSE, rule |-> "set_primary"]
    ELSE IF /\ fault = "retarget_first"
            /\ clicked_country # ss.primary_country
    THEN [ss |-> [ss EXCEPT !.primary_country = clicked_country],
          rerun |-> FALSE, rule |-> "replace_primary"]
    ELSE IF /\ fault # "no_fill"
            /\ ss.primary_country # None
            /\ ss.compare_mode # "Standard View"
            /\ clicked_country # ss.primary_country
    THEN [ss |-> [ss EXCEPT !.secondary_country = clicked_country],
          rerun |-> FALSE, rule |-> "set_secondary"]
    ELSE IF /\ fault # "no_retarget"
            /\ ss.compare_mode = "Standard View"
            /\ clicked_country # ss.primary_country
    THEN [ss |-> [ss EXCEPT !.primary_country = clicked_country],
          rerun |-> FALSE, rule |-> "replace_primary"]
    ELSE [ss |-> ss, rerun |-> FALSE, rule |-> "none"]

ClickHandling_KeepsMode(ss, clicked_country) ==
    ClickHandlingVariant(ss, clicked_country, "keeps_mode")
ClickHandling_KeepsSecondary(ss, clicked_country) ==
    ClickHandlingVariant(ss, clicked_country, "keeps_secondary")
ClickHandling_ToggleInStandardOnly(ss, clicked_country) ==
    ClickHandlingVariant(ss, clicked_country, "toggle_standard")
ClickHandling_FillFirst(ss, clicked_country) ==
    ClickHandlingVariant(ss, clicked_country, "fill_first")
ClickHandling_NoFill(ss, clicked_country) ==
    ClickHandlingVariant(ss, clicked_country, "no_fill")
ClickHandling_NoRetarget(ss, clicked_country) ==
    ClickHandlingVariant(ss, clicked_country, "no_retarget")
ClickHandling_RetargetFirst(ss, clicked_country) ==
    ClickHandlingVariant(ss, clicked_country, "retarget_first")
ClickHandling_FillAny(ss, clicked_country) ==
    ClickHandlingVariant(ss, clicked_country, "fill_any")

\* ------------------------------------------------------------------------
\* Click handling, Home.py:297-316.  The result carries the new session
\* state, whether the branch ended in st.rerun(), and the branch taken.
\* ------------------------------------------------------------------------
ClickHandling(ss, clicked_country) ==
    IF clicked_country = None
    THEN [ss |-> ss, rerun |-> FALSE, rule |-> "none"]
    ELSE IF clicked_country = ss.primary_country
    THEN [ss |-> [ss EXCEPT !.primary_country = None,
                            !.secondary_country = None,
                            !.compare_mode = "Standard View"],
          rerun |-> TRUE, rule |-> "toggle_primary"]
    ELSE IF clicked_country = ss.secondary_country
    THEN [ss |-> [ss EXCEPT !.secondary_country = None],
          rerun |-> TRUE, rule |-> "toggle_secondary"]
    ELSE IF ss.primary_country = None
    THEN [ss |-> [ss EXCEPT !.primary_country = clicked_country],
          rerun |-> FALSE, rule |-> "set_primary"]
    ELSE IF ss.primary_country # None
            /\ ss.compare_mode # "Standard View"
            /\ clicked_country # ss.primary_country
    THEN [ss |-> [ss EXCEPT !.secondary_country = clicked_country],
          rerun |-> FALSE, rule |-> "set_secondary"]
    ELSE IF ss.compare_mode = "Standard View"
            /\ clicked_country # ss.primary_country
    THEN [ss |-> [ss EXCEPT !.primary_country = clicked_country],
          rerun |-> FALSE, rule |-> "replace_primary"]
    ELSE [ss |-> ss, rerun |-> FALSE, rule |-> "none"]

\* ------------------------------------------------------------------------
\* Faulty variants of the mode control:
\*   "keeps_secondary"   a change of the radio leaves secondary_country
\*   "no_force"          the mode of a country of one kind is not forced
\* ------------------------------------------------------------------------
ModeControlVariant(d, ss, radio, fault) ==
    IF ss.primary_country = None
    THEN [ss |-> ss, rerun |-> FALSE, rule |-> "none"]
    ELSE IF ss.primary_country \notin all_countries(d)
    THEN [ss |-> ss, rerun |-> FALSE, rule |-> "IndexError"]
    ELSE
    LET primary == ss.primary_country
        is_both == get_category(d, primary) = "Both (Employees & Companies)"
        mode == IF radio = NoPick THEN ss.compare_mode ELSE radio
        req == IF ContainsEmployees(get_category(d, primary))
               THEN "Compare Employees" ELSE "Compare Companies"
    IN  IF is_both
        THEN IF mode # ss.compare_mode
             THEN [ss |-> [ss EXCEPT
                             !.compare_mode = mode,
                             !.secondary_country =
                                 IF fault = "keeps_secondary" THEN @
                                 ELSE None],
                   rerun |-> TRUE, rule |-> "radio_changed"]
             ELSE [ss |-> ss, rerun |-> FALSE, rule |-> "radio_same"]
        ELSE [ss |-> IF fault = "no_force" THEN ss
                     ELSE [ss EXCEPT !.compare_mode = req],
              rerun |-> FALSE, rule |-> "forced"]

ModeControl_KeepsSecondary(d, ss, radio) ==
    ModeControlVariant(d, ss, radio, "keeps_secondary")
ModeControl_NoForce(d, ss, radio) ==
    ModeControlVariant(d, ss, radio, "no_force")

\* ------------------------------------------------------------------------
\* Mode control, Home.py:320-349: the "Mode:" radio of a country of both
\* kinds, the forced mode of a country of one kind.  radio is the option
\* the user picked in this run, or NoPick: the radio then returns the
\* option at its index, the current compare_mode.  The category is looked
\* up in map_data with .iloc[0] (line 336), which raises IndexError for a
\* primary that is not a country of the map; the script stops there.
\* ------------------------------------------------------------------------
ModeControl(d, ss, radio) ==
    IF ss.primary_country = None
    THEN [ss |-> ss, rerun |-> FALSE, rule |-> "none"]
    ELSE IF ss.primary_country \notin all_countries(d)
    THEN [ss |-> ss, rerun |-> FALSE, rule |-> "IndexError"]
    ELSE
    LET primary == ss.primary_country
        is_both == get_category(d, primary) = "Both (Employees & Companies)"
        mode == IF radio = NoPick THEN ss.compare_mode ELSE radio
        req == IF ContainsEmployees(get_category(d, primary))
               THEN "Compare Employees" ELSE "Compare Companies"
    IN  IF is_both
        THEN IF mode # ss.compare_mode
             THEN [ss |-> [ss EXCEPT !.compare_mode = mode,
                                     !.secondary_country = None],
                   rerun |-> TRUE, rule |-> "radio_changed"]
             ELSE [ss |-> ss, rerun |-> FALSE, rule |-> "radio_same"]
        ELSE [ss |-> [ss EXCEPT !.compare_mode = req],
              rerun |-> FALSE, rule |-> "forced"]

\* ------------------------------------------------------------------------
\* The "Global Countries" button, Home.py:227-228
\* ------------------------------------------------------------------------
GlobalCountriesButton(ss, pressed) ==
    IF pressed
    THEN [ss EXCEPT !.show_global_top10 = ~ ss.show_global_top10]
    ELSE ss

\* ------------------------------------------------------------------------
\* One execution of the script, Home.py:216-458, on the widget values of
\* this run.  The result is the session state at the end of the execution
\* (the end of the script or the st.rerun() that stopped it).
\* ------------------------------------------------------------------------
HomeScript(d, ss, view, btn_global, btn_reset, sel, radio) ==
    IF d = {}
    THEN [ss |-> ss, rerun |-> FALSE, click_rule |-> "none",
          mode_rule |-> "none", clicked |-> None, error |-> "none"]
    ELSE
    LET s1 == GlobalCountriesButton(ss, btn_global)
    IN  IF btn_reset
        THEN [ss |-> reset_app(s1), rerun |-> TRUE, click_rule |-> "none",
              mode_rule |-> "none", clicked |-> None, error |-> "none"]
        ELSE IF view = "Comparator"
        THEN LET ch == ClickHandling(s1, sel)
                 mc == ModeControl(d, ch.ss, radio)
             IN  IF ch.rerun
                 THEN [ss |-> ch.ss, rerun |-> TRUE, click_rule |-> ch.rule,
                       mode_rule |-> "none", clicked |-> sel,
                       error |-> "none"]
                 ELSE [ss |-> mc.ss, rerun |-> mc.rerun,
                       click_rule |-> ch.rule, mode_rule |-> mc.rule,
                       clicked |-> sel,
                       error |-> IF mc.rule = "IndexError"
                                 THEN "IndexError" ELSE "none"]
        ELSE [ss |-> s1, rerun |-> FALSE, click_rule |-> "none",
              mode_rule |-> "none", clicked |-> None, error |-> "none"]

\* ------------------------------------------------------------------------
\* The Geographical overview page,
\* pages/Geographical_overview_of_AI_Impact.py.  It reads and writes the
\* same four keys of st.session_state (lines 19-33 of both files).
\* ------------------------------------------------------------------------
\* click handling, lines 176-184
GeoClickHandling(ss, clicked) ==
    IF clicked = None
    THEN [ss |-> ss, rerun |-> FALSE, rule |-> "none"]
    ELSE IF clicked = ss.primary_country
    THEN [ss |-> reset_app(ss), rerun |-> TRUE, rule |-> "toggle_primary"]
    ELSE IF ss.primary_country = None \/ ss.compare_mode = "Standard View"
    THEN [ss |-> [ss EXCEPT !.primary_country = clicked],
          rerun |-> FALSE,
          rule |-> IF ss.primary_country = None THEN "set_primary"
                   ELSE "replace_primary"]
    ELSE [ss |-> [ss EXCEPT !.secondary_country = clicked],
          rerun |-> FALSE, rule |-> "set_secondary"]

\* mode control, lines 187-209: the radio is drawn for every primary
GeoModeControl(ss, radio) ==
    IF ss.primary_country = None
    THEN [ss |-> ss, rerun |-> FALSE, rule |-> "none"]
    ELSE
    LET mode == IF radio = NoPick THEN ss.compare_mode ELSE radio
    IN  IF mode # ss.compare_mode
        THEN [ss |-> [ss EXCEPT !.compare_mode = mode,
                                !.secondary_country = None],
              rerun |-> TRUE, rule |-> "radio_changed"]
        ELSE [ss |-> ss, rerun |-> FALSE, rule |-> "radio_same"]

\* one execution of the script, lines 125-271
GeoScript(d, ss, view, btn_global, btn_reset, sel, radio) ==
    IF d = {}
    THEN [ss |-> ss, rerun |-> FALSE, click_rule |-> "none",
          mode_rule |-> "none", clicked |-> None, error |-> "none"]
    ELSE
    LET s1 == GlobalCountriesButton(ss, btn_global)
    IN  IF btn_reset
        THEN [ss |-> reset_app(s1), rerun |-> TRUE, click_rule |-> "none",
              mode_rule |-> "none", clicked |-> None, error |-> "none"]
        ELSE IF view = "Comparator"
        THEN LET ch == GeoClickHandling(s1, sel)
                 mc == GeoModeControl(ch.ss, radio)
             IN  IF ch.rerun
                 THEN [ss |-> ch.ss, rerun |-> TRUE, click_rule |-> ch.rule,
                       mode_rule |-> "none", clicked |-> sel,
                       error |-> "none"]
                 ELSE [ss |-> mc.ss, rerun |-> mc.rerun,
                       click_rule |-> ch.rule, mode_rule |-> mc.rule,
                       clicked |-> sel,
                       error |-> IF mc.rule = "IndexError"
                                 THEN "IndexError" ELSE "none"]
        ELSE [ss |-> s1, rerun |-> FALSE, click_rule |-> "none",
              mode_rule |-> "none", clicked |-> None, error |-> "none"]

\* the script of a page
Script(p, d, ss, view, btn_global, btn_reset, sel, radio) ==
    IF p = "Home"
    THEN HomeScript(d, ss, view, btn_global, btn_reset, sel, radio)
    ELSE GeoScript(d, ss, view, btn_global, btn_reset, sel, radio)

\* ------------------------------------------------------------------------
\* Panel composition, Home.py:351-390: the frames of the left and of the
\* right panel, computed from the session state at the end of an execution
\* that reaches them.  Column 1 of a row is employee_residence, column 2 is
\* company_location.
\* ------------------------------------------------------------------------
\* Python's  "Employees" in compare_mode  on the three mode strings
ModeMentionsEmployees(mode) == mode = "Compare Employees"

\* panel composition that reads the secondary in the residence column
\* whatever the mode is
PanelComposition_ResidenceOnly(d, ss) ==
    LET primary == ss.primary_country
        sec == ss.secondary_country
    IN  [df_L |-> IF ss.compare_mode = "Compare Companies"
                  THEN {r \in d : r[2] = primary}
                  ELSE {r \in d : r[1] = primary},
         side_L |-> IF ss.compare_mode = "Compare Companies"
                    THEN "Comp" ELSE "Emp",
         df_R |-> IF ss.compare_mode = "Standard View"
                  THEN {r \in d : r[2] = primary}
                  ELSE IF sec # None
                  THEN {r \in d : r[1] = sec}
                  ELSE {},
         name_R |-> IF ss.compare_mode = "Standard View" THEN primary
                    ELSE IF sec # None THEN sec
                    ELSE None]

PanelComposition(d, ss) ==
    LET primary == ss.primary_country
        sec == ss.secondary_country
        t_col == IF ModeMentionsEmployees(ss.compare_mode) THEN 1 ELSE 2
    IN  [df_L |-> IF ss.compare_mode = "Compare Companies"
                  THEN {r \in d : r[2] = primary}
                  ELSE {r \in d : r[1] = primary},
         side_L |-> IF ss.compare_mode = "Compare Companies"
                    THEN "Comp" ELSE "Emp",
         df_R |-> IF ss.compare_mode = "Standard View"
                  THEN {r \in d : r[2] = primary}
                  ELSE IF sec # None
                  THEN {r \in d : r[t_col] = sec}
                  ELSE {},
         name_R |-> IF ss.compare_mode = "Standard View" THEN primary
                    ELSE IF sec # None THEN sec
                    ELSE None]

\* the right column shows "Select a second country from the map."
\* instead of charts, Home.py:383-390
SecondCountryPrompt(d, ss) == PanelComposition(d, ss).df_R = {}

\* the last execution of the Home script drew the two panels
PanelsDrawn ==
    /\ page = "Home"
    /\ df # {}
    /\ view_mode = "Comparator"
    /\ ~ rerun
    /\ last.error = "none"
    /\ session_state.primary_country # None

\* the countries drawn on the map of a view, Home.py:260-261 and 417
MapCountries(d, view) ==
    IF view = "Comparator" THEN all_countries(d)
    ELSE IF view = "Employee Residence" THEN emp_countries(d)
    ELSE comp_countries(d)

\* the "Mode:" radio is on the page, Home.py:332-338; the Geographical
\* overview draws it for a primary of any category (lines 200-203)
ModeRadioShown ==
    /\ df # {}
    /\ view_mode = "Comparator"
    /\ session_state.primary_country # None
    /\ page = "Home"
          => /\ session_state.primary_country \in all_countries(df)
             /\ get_category(df, session_state.primary_country)
                  = "Both (Employees & Companies)"

\* ------------------------------------------------------------------------
\* Initial state: a fresh session, Home.py:19-26 and 52
\* ------------------------------------------------------------------------
Init ==
    /\ file \in FileStates
    /\ page = "Home"
    /\ df = load_data(file).df
    /\ session_state = InitialSessionState
    /\ view_mode = "Comparator"
    /\ selection = None
    /\ rerun = FALSE
    /\ last = [event |-> "start", pre |-> InitialSessionState,
               clicked |-> None, radio |-> NoPick,
               click_rule |-> "none", mode_rule |-> "none",
               error |-> load_data(file).error]
    /\ trail = << >>
    /\ raw_value = << >>
    /\ normalized_value = << >>

\* the execution of the script that an event starts
Execute(event, view, btn_global, btn_reset, sel, radio) ==
    LET r == Script(page', df, session_state, view, btn_global, btn_reset,
                    sel, radio)
    IN  /\ session_state' = r.ss
        /\ rerun' = r.rerun
        /\ last' = [event |-> event, pre |-> session_state,
                    clicked |-> r.clicked, radio |-> radio,
                    click_rule |-> r.click_rule, mode_rule |-> r.mode_rule,
                    error |-> r.error]
        /\ trail' = IF event = "MapClicked" /\ view = "Comparator"
                    THEN IF session_state = InitialSessionState
                         THEN <<sel>>
                         ELSE IF trail # << >> /\ Len(trail) < MaxTrail
                         THEN Append(trail, sel)
                         ELSE << >>
                    ELSE << >>
        /\ UNCHANGED <<file, df, raw_value, normalized_value>>

\* ------------------------------------------------------------------------
\* The events of a session.  The user acts on the page that the last
\* complete execution drew; a pending st.rerun() runs first.
\* ------------------------------------------------------------------------
\* a country is clicked on the map, Home.py:291-295 and 426-430
MapClicked(name) ==
    /\ ~ rerun
    /\ df # {}
    /\ name \in MapCountries(df, view_mode)
    /\ selection' = name
    /\ UNCHANGED <<page, view_mode>>
    /\ Execute("MapClicked", view_mode, FALSE, FALSE, name, NoPick)

\* the selection on the map is cleared by the user
MapDeselected ==
    /\ ~ rerun
    /\ df # {}
    /\ selection # None
    /\ selection' = None
    /\ UNCHANGED <<page, view_mode>>
    /\ Execute("MapDeselected", view_mode, FALSE, FALSE, None, NoPick)

\* the "Mode:" radio is set to another option, Home.py:338-345
ModeRadioChanged(m) ==
    /\ ~ rerun
    /\ ModeRadioShown
    /\ m # session_state.compare_mode
    /\ UNCHANGED <<page, view_mode, selection>>
    /\ Execute("ModeRadioChanged", view_mode, FALSE, FALSE, selection, m)

\* the "Select View Mode:" radio is set to another option, Home.py:224;
\* the map of the new view is another widget, with nothing selected
ViewModeChanged(v) ==
    /\ ~ rerun
    /\ df # {}
    /\ v # view_mode
    /\ view_mode' = v
    /\ selection' = None
    /\ UNCHANGED page
    /\ Execute("ViewModeChanged", v, FALSE, FALSE, None, NoPick)

\* the "Global Countries" button is pressed, Home.py:227-228
GlobalCountriesPressed ==
    /\ ~ rerun
    /\ df # {}
    /\ UNCHANGED <<page, view_mode, selection>>
    /\ Execute("GlobalCountriesPressed", view_mode, TRUE, FALSE, selection,
               NoPick)

\* the "Reset Selection" button is pressed, Home.py:230-232; the script
\* stops before the map is drawn, so the map may lose its selection
ResetSelectionPressed ==
    /\ ~ rerun
    /\ df # {}
    /\ selection' \in {selection, None}
    /\ UNCHANGED <<page, view_mode>>
    /\ Execute("ResetSelectionPressed", view_mode, FALSE, TRUE, selection,
               NoPick)

\* the execution that st.rerun() starts: no button is pressed, the radios
\* and the map keep their state
Rerun ==
    /\ rerun
    /\ UNCHANGED <<page, view_mode, selection>>
    /\ Execute("Rerun", view_mode, FALSE, FALSE, selection, NoPick)

\* the user opens the other page: its script runs on the shared session
\* state; the widgets of the page that was left are gone, those of the
\* page that opens start from their defaults
PageChanged(p) ==
    /\ ~ rerun
    /\ p # page
    /\ page' = p
    /\ view_mode' = "Comparator"
    /\ selection' = None
    /\ Execute("PageChanged", "Comparator", FALSE, FALSE, None, NoPick)

Next ==
    \/ \E name \in Countries : MapClicked(name)
    \/ MapDeselected
    \/ \E m \in Modes : ModeRadioChanged(m)
    \/ \E v \in ViewModes : ViewModeChanged(v)
    \/ GlobalCountriesPressed
    \/ ResetSelectionPressed
    \/ Rerun

\* a session on the Home page
Spec == Init /\ [][Next]_vars

\* a session that moves between the Home page and the Geographical overview
NextPages ==
    \/ Next
    \/ \E p \in Pages : PageChanged(p)

SpecPages == Init /\ [][NextPages]_vars

\* the map of the Comparator reports a click on a name that is in neither
\* column of the dataset (the AmbiguousClick of the error taxonomy)
AmbiguousClick ==
    /\ ~ rerun
    /\ df # {}
    /\ view_mode = "Comparator"
    /\ selection' = Stranger
    /\ UNCHANGED <<page, view_mode>>
    /\ Execute("MapClicked", view_mode, FALSE, FALSE, Stranger, NoPick)

\* a session on the Home page whose click events may name any entity
NextClicks ==
    \/ Next
    \/ AmbiguousClick

SpecClicks == Init /\ [][NextClicks]_vars

\* ------------------------------------------------------------------------
\* Shape of the state
\* ------------------------------------------------------------------------
\* ------------------------------------------------------------------------
\* The job-roles page (pages/2_A multidimensional comparative analysis of
\* job roles in the field of AI.py), lines 82-113: every selected metric is
\* aggregated per job title into raw_value and scaled into
\* normalized_value.  The aggregates are finite numbers; they are drawn
\* from a sample of 0..MaxRaw, and a normalized value is the exact
\* fraction num/den (den > 0) of the division of line 107.
\* ------------------------------------------------------------------------
JobRolesPage == "Job roles analysis"

RawValues == {0, 1, 2, 3, MaxRaw \div 2, MaxRaw - 1, MaxRaw}

RECURSIVE SeqsUpTo(_, _)
SeqsUpTo(S, n) ==
    IF n = 0 THEN {<< >>}
    ELSE LET shorter == SeqsUpTo(S, n - 1)
         IN  shorter \cup {Append(q, v) : q \in shorter, v \in S}

\* the raw_value columns of a metric: one value per job title, at least
\* one job title
RawColumns == SeqsUpTo(RawValues, MaxLen) \ {<< >>}

\* epsilon = 0.02, line 101
epsilon == [num |-> EpsilonNum, den |-> EpsilonDen]

\* the constant 1.0 of line 105
One == [num |-> 1, den |-> 1]

\* comparison of two fractions with positive denominators
FracLess(a, b) == a.num * b.den < b.num * a.den
FracEq(a, b) == a.num * b.den = b.num * a.den
FracLeq(a, b) == ~ FracLess(b, a)

\* Series.min() and Series.max(), lines 97-98
min_val(raw) ==
    CHOOSE m \in {raw[i] : i \in DOMAIN raw} : \A i \in DOMAIN raw : m <= raw[i]
max_val(raw) ==
    CHOOSE m \in {raw[i] : i \in DOMAIN raw} : \A i \in DOMAIN raw : m >= raw[i]

\* (raw_value - min_val) / (max_val - min_val), line 107, for one element
\* of a column with max_val # min_val
MinMaxScaled(raw, i) ==
    [num |-> raw[i] - min_val(raw), den |-> max_val(raw) - min_val(raw)]

\* Series.clip(lower=...), line 110, for one element
clip(q, lower) == IF FracLess(q, lower) THEN lower ELSE q

\* a normalization without the division-by-zero protection of lines
\* 104-105: a column of equal values is scaled to 0 and clipped
normalize_NoDegenerateCase(raw) ==
    [i \in DOMAIN raw |->
        clip(IF max_val(raw) - min_val(raw) = 0
             THEN [num |-> 0, den |-> 1]
             ELSE MinMaxScaled(raw, i),
             epsilon)]

\* a normalization that raises the elements equal to the minimum to
\* epsilon instead of clipping the column
normalize_FloorOnMinimumOnly(raw) ==
    [i \in DOMAIN raw |->
        IF max_val(raw) - min_val(raw) = 0 THEN One
        ELSE IF raw[i] = min_val(raw) THEN epsilon
        ELSE MinMaxScaled(raw, i)]

\* lines 96-110
normalize(raw) ==
    [i \in DOMAIN raw |->
        clip(IF max_val(raw) - min_val(raw) = 0
             THEN One
             ELSE MinMaxScaled(raw, i),
             epsilon)]

\* the job-roles page is open on a readable dataset and a metric has been
\* aggregated
InitNormalize ==
    /\ file = "present"
    /\ page = JobRolesPage
    /\ df = load_data(file).df
    /\ session_state = InitialSessionState
    /\ view_mode = "Comparator"
    /\ selection = None
    /\ rerun = FALSE
    /\ last = [event |-> "start", pre |-> InitialSessionState,
               clicked |-> None, radio |-> NoPick,
               click_rule |-> "none", mode_rule |-> "none",
               error |-> load_data(file).error]
    /\ trail = << >>
    /\ raw_value \in RawColumns
    /\ normalized_value = << >>

\* step 2 of the loop over the selected metrics, lines 96-110
NormalizeMetric ==
    /\ page = JobRolesPage
    /\ normalized_value = << >>
    /\ normalized_value' = normalize(raw_value)
    /\ UNCHANGED <<file, page, df, session_state, view_mode, selection, rerun,
                   last, trail, raw_value>>

\* the loop goes on to the next selected metric, lines 83-94
NextMetric ==
    /\ page = JobRolesPage
    /\ normalized_value # << >>
    /\ raw_value' \in RawColumns
    /\ normalized_value' = << >>
    /\ UNCHANGED <<file, page, df, session_state, view_mode, selection, rerun,
                   last, trail>>

NextNormalize == NormalizeMetric \/ NextMetric

SpecNormalize == InitNormalize /\ [][NextNormalize]_vars

TypeOK ==
    /\ file \in FileStates
    /\ page \in Pages
    /\ df \in Datasets
    /\ session_state.primary_country \in Countries \cup {None}
    /\ session_state.secondary_country \in Countries \cup {None}
    /\ session_state.compare_mode \in Modes
    /\ session_state.show_global_top10 \in BOOLEAN
    /\ view_mode \in ViewModes
    /\ selection \in Countries \cup {None}
    /\ rerun \in BOOLEAN
    /\ Len(trail) <= MaxTrail

\* ------------------------------------------------------------------------
\* Vocabulary of the properties.  The SelectionState of the spec is the
\* session state; an event is the execution of the script that it starts,
\* and the state after the event is the session state at the end of that
\* execution.  EntityClicked(name) is an execution that reads name from
\* the Comparator map (last.clicked = name).
\* ------------------------------------------------------------------------
primaryEntity == session_state.primary_country
secondaryEntity == session_state.secondary_country
comparisonMode == session_state.compare_mode
showGlobalTop10 == session_state.show_global_top10
EntityClicked == last.clicked # None
UserClicked == EntityClicked /\ last.event = "MapClicked"

\* C1: in every reachable state, secondaryEntity is non-null only if
\* primaryEntity is non-null and comparisonMode is not Standard.
SecondaryNeedsPrimaryAndCompareMode ==
    secondaryEntity # None
        => primaryEntity # None /\ comparisonMode # "Standard View"

\* a secondary country is held beside a primary whose mode was forced
WitnessSecondaryUnderForcedMode ==
    /\ secondaryEntity # None
    /\ primaryEntity # None
    /\ get_category(df, primaryEntity) = "Companies Only"
    /\ last.mode_rule = "forced"

ClickFillsSecondary ==
    (/\ EntityClicked
     /\ last.pre.primary_country # None
     /\ last.pre.compare_mode # "Standard View"
     /\ last.clicked # last.pre.primary_country
     /\ last.clicked # last.pre.secondary_country)
        => /\ secondaryEntity = last.clicked
           /\ primaryEntity = last.pre.primary_country
           /\ comparisonMode = last.pre.compare_mode

\* the user replaced one secondary country by another in a compare mode
\* that the radio had set
WitnessClickFillsSecondary ==
    /\ UserClicked
    /\ last.pre.primary_country # None
    /\ last.pre.compare_mode = "Compare Companies"
    /\ last.pre.secondary_country # None
    /\ last.clicked \notin {last.pre.primary_country,
                            last.pre.secondary_country}
    /\ secondaryEntity = last.clicked
    /\ last.mode_rule = "radio_same"

\* C5: with no primary, or in Standard mode with another primary, a click
\* makes the clicked country the primary, and no secondary is held after.
ClickSetsPrimary ==
    (/\ EntityClicked
     /\ \/ last.pre.primary_country = None
        \/ /\ last.pre.compare_mode = "Standard View"
           /\ last.clicked # last.pre.primary_country)
        => /\ primaryEntity = last.clicked
           /\ secondaryEntity = None

\* the user re-targeted the primary in Standard mode
WitnessClickReplacesPrimary ==
    /\ UserClicked
    /\ last.pre.primary_country # None
    /\ last.pre.compare_mode = "Standard View"
    /\ last.clicked # last.pre.primary_country
    /\ primaryEntity = last.clicked
    /\ secondaryEntity = None

\* C6: whenever the primary is a country of employees only (of companies
\* only), the mode is Compare Employees (Compare Companies); no event
\* sequence of the Home page reaches another mode for such a primary.
ForcedModeOfCategory ==
    primaryEntity # None =>
        /\ get_category(df, primaryEntity) = "Employees Only"
              => comparisonMode = "Compare Employees"
        /\ get_category(df, primaryEntity) = "Companies Only"
              => comparisonMode = "Compare Companies"

\* a country of employees only became the primary by a click in Standard
\* mode on another primary, and the mode was forced
WitnessForcedMode ==
    /\ UserClicked
    /\ last.pre.primary_country # None
    /\ last.pre.compare_mode = "Standard View"
    /\ primaryEntity = last.clicked
    /\ get_category(df, primaryEntity) = "Employees Only"
    /\ comparisonMode = "Compare Employees"

\* C7: changing the "Mode:" radio to another mode while a primary is
\* selected sets that mode, leaves no secondary and keeps the primary.
ModeChangedSetsModeAndClearsSecondary ==
    last.event = "ModeRadioChanged"
        => /\ comparisonMode = last.radio
           /\ secondaryEntity = None
           /\ primaryEntity = last.pre.primary_country

ToggleGlobalTop10Independent ==
    /\ last.event = "GlobalCountriesPressed"
          => /\ showGlobalTop10 = ~ last.pre.show_global_top10
             /\ primaryEntity = last.pre.primary_country
             /\ secondaryEntity = last.pre.secondary_country
             /\ comparisonMode = last.pre.compare_mode
    /\ last.event \in {"MapClicked", "ModeRadioChanged"}
          => showGlobalTop10 = last.pre.show_global_top10

\* the frame of the rows of df whose column col is the country c
RowsOf(col, c) == {r \in df : r[col] = c}

\* C12: with a primary, the left panel is the primary's rows by company
\* location in Compare Companies and by employee residence otherwise; the
\* right panel is the primary's rows by company location in Standard
\* View, otherwise the secondary's rows in the column of the mode, and
\* the prompt for a second country while there is no secondary.
PanelFilterMapping ==
    PanelsDrawn =>
        LET panels == PanelComposition(df, session_state)
        IN  /\ panels.df_L =
                 IF comparisonMode = "Compare Companies"
                 THEN RowsOf(2, primaryEntity)
                 ELSE RowsOf(1, primaryEntity)
            /\ comparisonMode = "Standard View"
                 => panels.df_R = RowsOf(2, primaryEntity)
            /\ (comparisonMode = "Compare Employees"
                    /\ secondaryEntity # None)
                 => panels.df_R = RowsOf(1, secondaryEntity)
            /\ (comparisonMode = "Compare Companies"
                    /\ secondaryEntity # None)
                 => panels.df_R = RowsOf(2, secondaryEntity)
            /\ (comparisonMode # "Standard View" /\ secondaryEntity = None)
                 => /\ panels.df_R = {}
                    /\ SecondCountryPrompt(df, session_state)

\* the panels of a comparison of companies were drawn, the right one with
\* the rows of a secondary that has none as employee residence
WitnessPanelsOfComparison ==
    /\ PanelsDrawn
    /\ comparisonMode = "Compare Companies"
    /\ secondaryEntity # None
    /\ PanelComposition(df, session_state).df_R # {}
    /\ RowsOf(1, secondaryEntity) = {}

LoadFailureIsDatasetUnavailable ==
    file # "present"
        => /\ last.error = "none"
           /\ df = {}
           /\ session_state = InitialSessionState

\* a metric has been normalized: normalized_value is the column computed
\* from raw_value
Normalized == normalized_value # << >>

\* the values of the raw column are not all equal
Discriminating == max_val(raw_value) # min_val(raw_value)

\* C15: every normalized value lies in [0.02, 1] and at least one equals
\* 1; when all raw values are equal (a single value included) every
\* normalized value is exactly 1.
NormalizedRange ==
    Normalized =>
        /\ DOMAIN normalized_value = DOMAIN raw_value
        /\ \A i \in DOMAIN normalized_value :
              /\ FracLeq(epsilon, normalized_value[i])
              /\ FracLeq(normalized_value[i], One)
        /\ \E i \in DOMAIN normalized_value : FracEq(normalized_value[i], One)
        /\ ~ Discriminating
              => \A i \in DOMAIN normalized_value : normalized_value[i] = One

\* a column of several equal values has been normalized
WitnessEqualValuesNormalized ==
    /\ Normalized
    /\ Len(raw_value) >= 2
    /\ ~ Discriminating

\* C16 as stated: when max # min, every element above the minimum keeps
\* its exact scaled value (v - min) / (max - min) and only the elements
\* equal to the minimum are raised to 0.02.
FloorChangesOnlyTheMinimum ==
    (Normalized /\ Discriminating) =>
        \A i \in DOMAIN raw_value :
            IF raw_value[i] = min_val(raw_value)
            THEN FracEq(normalized_value[i], epsilon)
            ELSE FracEq(normalized_value[i],
                        [num |-> raw_value[i] - min_val(raw_value),
                         den |-> max_val(raw_value) - min_val(raw_value)])

\* C16, amended: when max # min, every element whose scaled value
\* (v - min) / (max - min) is at least 0.02 keeps exactly that value, and
\* every element whose scaled value is below 0.02 (the minimum, and any
\* element less than 2% of the range above it) is raised to 0.02.
FloorChangesValuesBelowEpsilon ==
    (Normalized /\ Discriminating) =>
        \A i \in DOMAIN raw_value :
            LET v == raw_value[i]
                lo == min_val(raw_value)
                hi == max_val(raw_value)
            IN  IF (v - lo) * EpsilonDen >= EpsilonNum * (hi - lo)
                THEN normalized_value[i] = [num |-> v - lo, den |-> hi - lo]
                ELSE normalized_value[i] = epsilon

\* a column was normalized in which an element above the minimum scales
\* to less than 0.02 and is raised, next to an element that keeps its
\* scaled value
WitnessElementWithinTwoPercent ==
    /\ Normalized
    /\ Discriminating
    /\ \E i \in DOMAIN raw_value :
          /\ raw_value[i] > min_val(raw_value)
          /\ FracLess(MinMaxScaled(raw_value, i), epsilon)
          /\ normalized_value[i] = epsilon
    /\ \E j \in DOMAIN raw_value :
          /\ FracLess(epsilon, normalized_value[j])
          /\ normalized_value[j] = MinMaxScaled(raw_value, j)

\* what the script of page p makes of the session state ss when the map
\* reports a click on country c and no other widget is touched
AfterClick(p, ss, c) == Script(p, df, ss, "Comparator", FALSE, FALSE, c, NoPick).ss

\* C17: the click handler of the Geographical overview page implements
\* the transition table of Home: from every selection state and for every
\* clicked country, both handlers, each followed by its mode control,
\* give the same next state.
GeoHandlerMatchesHome ==
    \A c \in all_countries(df) :
        AfterClick("Geographical overview", session_state, c)
            = AfterClick("Home", session_state, c)

\* C18: one interaction causes one transition: an execution of the Home
\* script that is not started by a map click (a rerun, a change of the
\* mode radio, the Global Countries button) does not apply the click
\* rules to the country the map still reports, and a state in which no
\* rerun is pending is left unchanged by a further execution.
OneTransitionPerInteraction ==
    /\ last.event \in {"Rerun", "ModeRadioChanged", "GlobalCountriesPressed"}
          => last.click_rule = "none"
    /\ (page = "Home" /\ ~ rerun /\ last.error = "none")
          => HomeScript(df, session_state, view_mode, FALSE, FALSE,
                        selection, NoPick).ss = session_state

\* C19: in every reachable state of the Home session, no primary means
\* Standard mode and no secondary.
NoPrimaryMeansStandardAndNoSecondary ==
    primaryEntity = None
        => comparisonMode = "Standard View" /\ secondaryEntity = None

\* the primary of a comparison of companies with a secondary was given up
WitnessPrimaryGivenUpInComparison ==
    /\ primaryEntity = None
    /\ last.pre.primary_country # None
    /\ last.pre.secondary_country # None
    /\ get_category(df, last.pre.primary_country)
          = "Both (Employees & Companies)"
    /\ last.pre.compare_mode = "Compare Companies"
    /\ comparisonMode = "Standard View"

\* C20: while the mode is not Standard, no click replaces the primary by
\* another country: it resets the state, clears the secondary or sets it.
ClickInCompareModeKeepsPrimary ==
    (EntityClicked /\ last.pre.compare_mode # "Standard View")
        => /\ primaryEntity \in {last.pre.primary_country, None}
           /\ last.click_rule \in {"toggle_primary", "toggle_secondary",
                                   "set_secondary"}

\* a click on a third country in a comparison of employees replaced the
\* secondary and left the employees-only primary in place
WitnessThirdCountryInComparison ==
    /\ UserClicked
    /\ last.pre.compare_mode = "Compare Employees"
    /\ last.pre.primary_country # None
    /\ get_category(df, last.pre.primary_country) = "Employees Only"
    /\ last.pre.secondary_country # None
    /\ last.clicked \notin {last.pre.primary_country,
                            last.pre.secondary_country}
    /\ primaryEntity = last.pre.primary_country
    /\ secondaryEntity = last.clicked

\* C21: in every reachable selection state of the Home page, the
\* secondary country is never the primary country when both are set.
SecondaryDiffersFromPrimary ==
    (primaryEntity # None /\ secondaryEntity # None)
        => secondaryEntity # primaryEntity

\* a click filled the secondary slot beside a primary of both kinds, in a
\* comparison that the user chose on the radio
WitnessDistinctPair ==
    /\ last.click_rule = "set_secondary"
    /\ last.pre.secondary_country = None
    /\ get_category(df, primaryEntity) = "Both (Employees & Companies)"
    /\ comparisonMode = "Compare Employees"
    /\ secondaryEntity = last.clicked
    /\ secondaryEntity # primaryEntity

\* the keys of st.session_state that the two map pages create and use,
\* Home.py:19-26 and lines 19-26 of the Geographical overview page
SessionKeys ==
    {"primary_country", "secondary_country", "compare_mode",
     "show_global_top10"}

\* C22: both map pages work on the same session keys, and in a session
\* that moves between the two pages the category forcing of Home never
\* changes the mode to another value while a secondary country is held: a
\* secondary chosen under one field is never kept under the other field.
ForcingKeepsModeOfSecondary ==
    /\ DOMAIN session_state = SessionKeys
    /\ (page = "Home" /\ last.mode_rule = "forced"
            /\ secondaryEntity # None)
          => comparisonMode = last.pre.compare_mode

====
